---- MODULE Spec2Model ----
(***************************************************************************)
(* State-machine model of the simulated-universe navigation operations     *)
(* (sr/sim_uni/op/move_in_sim_uni.py), of ResetSimUniLevel and of the      *)
(* Operation framework that runs them.                                     *)
(*                                                                         *)
(* Conventions                                                             *)
(*  - Optional[T] is a sequence of length 0 (None) or 1 (the value).       *)
(*  - Time is counted in ticks of 0.5 s.  A timestamp field is kept as its *)
(*    age: the ticks elapsed since time.time() was stored in it.           *)
(*  - Indices returned by the code are 0-based, as in Python.              *)
(*  - One operation (or one pure function) is exercised per behaviour; the *)
(*    variable op says which.                                              *)
(***************************************************************************)
EXTENDS Integers, Sequences, FiniteSets, TLC

VARIABLES
    op,            \* the operation / function exercised in this behaviour
    phase,         \* "created" | "running" | "done"  (Operation.execute)
    paused,        \* a pause was requested and not yet resumed
    node,          \* StateOperation: index of the current node (1-based)
    op_round,      \* retries consumed on the current node
    round_result,  \* Optional: what the last step invocation returned
    op_result,     \* Optional: the terminal OperationResult
    self,          \* the fields of the operation object
    screen,        \* Optional: the frame sampled by the last step
    ctl,           \* the controller (actuation collaborator)
    cmds,          \* the controller commands issued by the last step / hook
    miss_streak,   \* history: number of invocations so far when every one of
                   \* them saw a "miss" input, -1 once one did not
    hist,          \* history: what the last step invocation did (per operation)
    args,          \* pure functions: the arguments drawn by Init
    ret            \* pure functions: Optional return value

vars == <<op, phase, paused, node, op_round, round_result, op_result, self,
          screen, ctl, cmds, miss_streak, hist, args, ret>>

----------------------------------------------------------------------------
(* Bounds of the model *)

NumKinds == 2      \* entries of SimUniLevelTypeEnum that are modelled
MaxLen == 2        \* longest type_list handed to match_best_level_type
MaxPrio == 3       \* longest priority id list
MaxDelta == 2      \* longest time between two step invocations, in ticks
MaxCombat == 2     \* longest combat, in ticks
MaxAge == 4        \* ages of MoveDirectly's timestamps saturate here
MaxCoord == 2      \* MoveDirectly: positions are 0..MaxCoord on a line
MaxRoute == 2      \* longest event_pos_list / next_pos_list of a route
MaxLoads == 3      \* ImageHolder: load calls made in one behaviour

----------------------------------------------------------------------------
(* Generic helpers *)

None == <<>>
Some(v) == <<v>>

Min2(a, b) == IF a < b THEN a ELSE b
Max2(a, b) == IF a > b THEN a ELSE b
MinOf(S) == CHOOSE x \in S : \A y \in S : x <= y

SeqsUpTo(S, n) == UNION {[1..k -> S] : k \in 0..n}

----------------------------------------------------------------------------
(* OperationOneRoundResult constructors *)

round_success == [result |-> "SUCCESS", status |-> "none"]
round_wait == [result |-> "WAIT", status |-> "none"]
round_retry(status) == [result |-> "RETRY", status |-> status]
round_fail(status) == [result |-> "FAIL", status |-> status]

(* Controller commands; arg is a sequence of integers. *)
Cmd(name, arg) == [cmd |-> name, arg |-> arg]
stop_moving_forward == Cmd("stop_moving_forward", <<>>)
start_moving_forward == Cmd("start_moving_forward", <<>>)
interact == Cmd("interact", <<>>)
turn_by_angle(a) == Cmd("turn_by_angle", <<a>>)
move_towards(target) == Cmd("move_towards", <<target>>)
esc == Cmd("esc", <<>>)
turn_by_pos(from, to, angle) == Cmd("turn_by_pos", <<from.x, from.y, to.x, to.y, angle>>)

(* The controller after the commands cs: only its moving flag is state. *)
RECURSIVE Actuate(_, _)
Actuate(c, cs) ==
    IF cs = <<>> THEN c
    ELSE LET h == Head(cs)
             c1 == IF h.cmd \in {"start_moving_forward", "move_towards"}
                   THEN [c EXCEPT !.is_moving = TRUE]
                   ELSE IF h.cmd = "stop_moving_forward" THEN [c EXCEPT !.is_moving = FALSE]
                   ELSE c
         IN Actuate(c1, Tail(cs))

----------------------------------------------------------------------------
(* The catalogue of entrance kinds *)

Kinds == 1..NumKinds
\* priority ids: the catalogue's ids and one id no catalogue entry has
PriorityIds == 0..NumKinds

LevelType(k) == [type_id |-> k]

\* SimUniLevelTypeEnum, in enumeration order
SimUniLevelTypeEnum == [k \in Kinds |-> LevelType(k)]

\* the catalogue entry with that id, None when there is none
level_type_from_id(id) ==
    LET hit == {k \in Kinds : SimUniLevelTypeEnum[k].type_id = id}
    IN IF hit = {} THEN None ELSE Some(SimUniLevelTypeEnum[MinOf(hit)])

\* screen x coordinates at which an entrance can be matched
STANDARD_RESOLUTION_W == 1920
CenterXs == {460, 1460}

\* the feature match of one template against the frame: Optional[MatchResult]
feature_match_for_one(scr, k) ==
    IF scr.matches[k] = None THEN None
    ELSE Some([center_x |-> scr.matches[k][1], data |-> None])

----------------------------------------------------------------------------
(* MoveToNextLevel.get_next_level_type *)

RECURSIVE get_next_level_type_from(_, _)
get_next_level_type_from(k, scr) ==
    IF k > NumKinds THEN <<>>
    ELSE LET result == feature_match_for_one(scr, k)
             rest == get_next_level_type_from(k + 1, scr)
         IN IF result = None THEN rest
            ELSE <<[result[1] EXCEPT !.data = SimUniLevelTypeEnum[k]]>> \o rest

\* mutant: the loop is left (break) at the first template without a match
RECURSIVE get_next_level_type_break_from(_, _)
get_next_level_type_break_from(k, scr) ==
    IF k > NumKinds THEN <<>>
    ELSE LET result == feature_match_for_one(scr, k)
         IN IF result = None THEN <<>>
            ELSE <<[result[1] EXCEPT !.data = SimUniLevelTypeEnum[k]]>>
                 \o get_next_level_type_break_from(k + 1, scr)

get_next_level_type_break(scr) == get_next_level_type_break_from(1, scr)

get_next_level_type(scr) == get_next_level_type_from(1, scr)

----------------------------------------------------------------------------
(* MoveToNextLevel.match_best_level_type *)

RECURSIVE match_by_priority(_, _, _)
match_by_priority(type_list, id_list, i) ==
    IF i > Len(id_list) THEN 0
    ELSE LET priority_level_type == level_type_from_id(id_list[i])
         IN IF priority_level_type = None
            THEN match_by_priority(type_list, id_list, i + 1)
            ELSE LET hits == {idx \in 1..Len(type_list) :
                                type_list[idx].data = priority_level_type[1]}
                 IN IF hits # {} THEN MinOf(hits) - 1
                    ELSE match_by_priority(type_list, id_list, i + 1)

\* mutant: the two loops are nested the other way round, so the position in
\* type_list wins over the position in the priority list
match_best_level_type_by_position(type_list, level_priority) ==
    IF level_priority = None THEN 0
    ELSE LET ids == level_priority[1].id_list
             hits == {idx \in 1..Len(type_list) :
                        \E i \in 1..Len(ids) :
                            level_type_from_id(ids[i]) = Some(type_list[idx].data)}
         IN IF hits # {} THEN MinOf(hits) - 1 ELSE 0

\* mutant: the fall-through result is the last index, not 0
match_best_level_type_last(type_list, level_priority) ==
    IF level_priority = None THEN Len(type_list) - 1
    ELSE LET r == match_by_priority(type_list, level_priority[1].id_list, 1)
             found == \E i \in 1..Len(level_priority[1].id_list) :
                        \E idx \in 1..Len(type_list) :
                            level_type_from_id(level_priority[1].id_list[i])
                                = Some(type_list[idx].data)
         IN IF found THEN r ELSE Len(type_list) - 1

match_best_level_type(type_list, level_priority) ==
    IF level_priority = None THEN 0
    ELSE match_by_priority(type_list, level_priority[1].id_list, 1)

----------------------------------------------------------------------------
(* The Operation framework: what execute() does with a step's result *)

TRY_TIMES_MoveToNextLevel == 5
TRY_TIMES_ResetSimUniLevel == 10

RetryExhausted == "RetryExhausted"

op_success == [success |-> TRUE, status |-> "none"]
op_fail(status) == [success |-> FALSE, status |-> status]

\* The framework's state after a step returned r on node cur_node of n_nodes,
\* with cur_round retries already consumed on that node.
after_round(try_times, n_nodes, cur_node, cur_round, r) ==
    CASE r.result = "SUCCESS" ->
            IF cur_node < n_nodes
            THEN [phase |-> "running", node |-> cur_node + 1, op_round |-> 0,
                  op_result |-> None]
            ELSE [phase |-> "done", node |-> cur_node, op_round |-> cur_round,
                  op_result |-> Some(op_success)]
      [] r.result = "FAIL" ->
            [phase |-> "done", node |-> cur_node, op_round |-> cur_round,
             op_result |-> Some(op_fail(r.status))]
      [] r.result = "RETRY" ->
            IF cur_round + 1 >= try_times
            THEN [phase |-> "done", node |-> cur_node, op_round |-> cur_round + 1,
                  op_result |-> Some(op_fail(RetryExhausted))]
            ELSE [phase |-> "running", node |-> cur_node, op_round |-> cur_round + 1,
                  op_result |-> None]
      [] r.result = "WAIT" ->
            [phase |-> "running", node |-> cur_node, op_round |-> cur_round,
             op_result |-> None]

\* history: the streak of invocations that all saw a miss, saturating
StreakCap == TRY_TIMES_ResetSimUniLevel + 1
next_streak(streak, miss) ==
    IF streak >= 0 /\ miss THEN Min2(streak + 1, StreakCap) ELSE -1

\* Operation._init_before_execute: the framework's part
framework_init_before_execute ==
    /\ phase' = "running"
    /\ paused' = FALSE
    /\ node' = 1
    /\ op_round' = 0
    /\ round_result' = None
    /\ op_result' = None
    /\ screen' = None
    /\ cmds' = <<>>
    /\ miss_streak' = 0

\* round_by_op: a child operation's terminal result as the node's result
round_by_op(child) ==
    IF child.success THEN round_success ELSE round_fail(child.status)

\* whether the framework finishes the operation on this result
finishes(try_times, n_nodes, r) ==
    after_round(try_times, n_nodes, node, op_round, r).phase = "done"

\* what every step invocation leaves in the framework's variables
framework_after_step(try_times, n_nodes, r) ==
    \E fw \in {after_round(try_times, n_nodes, node, op_round, r)} :
       /\ phase' = fw.phase
       /\ node' = fw.node
       /\ op_round' = fw.op_round
       /\ op_result' = fw.op_result
       /\ round_result' = Some(r)
       /\ paused' = paused

----------------------------------------------------------------------------
(* MoveToNextLevel *)

MOVE_TIME == 3     \* 1.5 s
AgeCap == MOVE_TIME + 1   \* ages saturate here: only "> MOVE_TIME" is ever read

\* cal_utils.get_angle_by_pts(CHARACTER_CENTER, target.center) for the
\* modelled centres (CHARACTER_CENTER is at x = 960, below the entrances)
mm_angle_to(center_x) ==
    IF center_x < 960 THEN 225 ELSE IF center_x = 960 THEN 270 ELSE 315

MoveToNextLevel_get_angle_to_turn(target) == mm_angle_to(target.center_x) - 270

\* mutant: the first match is taken, whatever the priority says
MoveToNextLevel_get_target_entry_first(s, type_list) == type_list[1]

MoveToNextLevel_get_target_entry(s, type_list) ==
    type_list[match_best_level_type(type_list, s.level_priority) + 1]

MoveToNextLevel_move_towards(s, target) ==
    [self |-> [s EXCEPT !.start_move_age = 0, !.is_moving = TRUE],
     cmds |-> <<turn_by_angle(MoveToNextLevel_get_angle_to_turn(target)),
                start_moving_forward>>]

\* mutant: the interact command is fired without stopping first
MoveToNextLevel_try_interact_no_stop(s, scr) ==
    IF scr.can_interact
    THEN [self |-> [s EXCEPT !.interacted = TRUE],
          cmds |-> <<interact>>,
          ret |-> Some(round_wait)]
    ELSE [self |-> s, cmds |-> <<>>, ret |-> None]

MoveToNextLevel_try_interact(s, scr) ==
    IF scr.can_interact
    THEN [self |-> [s EXCEPT !.interacted = TRUE],
          cmds |-> <<stop_moving_forward, interact>>,
          ret |-> Some(round_wait)]
    ELSE [self |-> s, cmds |-> <<>>, ret |-> None]

\* mutant: a round spent moving answers Retry
MoveToNextLevel_moving_round_retry(s) ==
    IF s.start_move_age > MOVE_TIME
    THEN [self |-> [s EXCEPT !.is_moving = FALSE],
          cmds |-> <<stop_moving_forward>>, ret |-> round_retry("moving")]
    ELSE [self |-> s, cmds |-> <<>>, ret |-> round_retry("moving")]

\* mutant: after MOVE_TIME the flag is cleared but the stop is not sent
MoveToNextLevel_moving_round_no_stop(s) ==
    IF s.start_move_age > MOVE_TIME
    THEN [self |-> [s EXCEPT !.is_moving = FALSE], cmds |-> <<>>, ret |-> round_wait]
    ELSE [self |-> s, cmds |-> <<>>, ret |-> round_wait]

\* the branch "if self.is_moving" of _execute_one_round
MoveToNextLevel_moving_round(s) ==
    IF s.start_move_age > MOVE_TIME
    THEN [self |-> [s EXCEPT !.is_moving = FALSE],
          cmds |-> <<stop_moving_forward>>, ret |-> round_wait]
    ELSE [self |-> s, cmds |-> <<>>, ret |-> round_wait]

\* mutant: a scan that finds no entrance answers Wait
MoveToNextLevel_scan_round_wait(s, scr) ==
    LET type_list == get_next_level_type(scr)
    IN IF Len(type_list) = 0
       THEN [self |-> s, cmds |-> <<turn_by_angle(90)>>, ret |-> round_wait]
       ELSE LET mv == MoveToNextLevel_move_towards(
                          s, MoveToNextLevel_get_target_entry(s, type_list))
            IN [self |-> mv.self, cmds |-> mv.cmds, ret |-> round_wait]

\* the branch "else" (not moving) of _execute_one_round
MoveToNextLevel_scan_round(s, scr) ==
    LET type_list == get_next_level_type(scr)
    IN IF Len(type_list) = 0
       THEN [self |-> s, cmds |-> <<turn_by_angle(90)>>,
             ret |-> round_retry("entry_not_found")]
       ELSE LET mv == MoveToNextLevel_move_towards(
                          s, MoveToNextLevel_get_target_entry(s, type_list))
            IN [self |-> mv.self, cmds |-> mv.cmds, ret |-> round_wait]

\* mutant: a frame that is not the in-world screen ends the operation whether
\* or not an interaction was fired
MoveToNextLevel_execute_one_round_any_leave(s, scr) ==
    IF ~scr.in_world
    THEN [self |-> s, cmds |-> <<>>, ret |-> round_success]
    ELSE LET s1 == [s EXCEPT !.interacted = FALSE]
             ti == MoveToNextLevel_try_interact(s1, scr)
         IN IF ti.ret # None
            THEN [self |-> ti.self, cmds |-> ti.cmds, ret |-> ti.ret[1]]
            ELSE IF s1.is_moving
                 THEN MoveToNextLevel_moving_round(s1)
                 ELSE MoveToNextLevel_scan_round(s1, scr)

MoveToNextLevel_execute_one_round(s, scr) ==
    IF s.interacted /\ ~scr.in_world
    THEN [self |-> s, cmds |-> <<>>, ret |-> round_success]
    ELSE LET s1 == [s EXCEPT !.interacted = FALSE]
             ti == MoveToNextLevel_try_interact(s1, scr)
         IN IF ti.ret # None
            THEN [self |-> ti.self, cmds |-> ti.cmds, ret |-> ti.ret[1]]
            ELSE IF s1.is_moving
                 THEN MoveToNextLevel_moving_round(s1)
                 ELSE MoveToNextLevel_scan_round(s1, scr)

\* the frames a round of MoveToNextLevel can sample
MatchSets == [Kinds -> {None} \cup {Some(x) : x \in CenterXs}]
Screens == [in_world : BOOLEAN, can_interact : BOOLEAN, matches : MatchSets]

\* a frame on which nothing is found: no prompt and no entrance
IsMissScreen(scr) == ~scr.can_interact /\ \A k \in Kinds : scr.matches[k] = None

\* the priorities an operation is constructed with
OpPriorities == {None, Some([id_list |-> <<NumKinds, 1>>])}

MoveToNextLevel_init(level_priority) ==
    [level_priority |-> level_priority, is_moving |-> FALSE,
     start_move_age |-> AgeCap, interacted |-> FALSE]

\* execute(): _init_before_execute
NL_Execute ==
    /\ op = "MoveToNextLevel"
    /\ phase \in {"created", "done"}
    /\ self' = [self EXCEPT !.is_moving = FALSE, !.interacted = FALSE]
    /\ hist' = None
    /\ framework_init_before_execute
    /\ UNCHANGED <<op, ctl, args, ret>>

\* one iteration of execute(): the step, then the framework's bookkeeping
NL_Round ==
    /\ op = "MoveToNextLevel"
    /\ phase = "running"
    /\ ~paused
    /\ \E d \in 1..MaxDelta, scr \in Screens :
       \E out \in {MoveToNextLevel_execute_one_round(
                       [self EXCEPT !.start_move_age = Min2(@ + d, AgeCap)], scr)} :
           /\ self' = out.self
           /\ screen' = Some(scr)
           /\ cmds' = out.cmds
           /\ ctl' = Actuate(ctl, out.cmds)
           /\ miss_streak' = next_streak(miss_streak, IsMissScreen(scr))
           /\ hist' = Some([fired_interact |->
                               \E i \in 1..Len(out.cmds) : out.cmds[i] = interact])
           /\ framework_after_step(TRY_TIMES_MoveToNextLevel, 1, out.ret)
    /\ UNCHANGED <<op, args, ret>>

----------------------------------------------------------------------------
(* MoveToMiniMapInteractIcon *)

TRY_TIMES_MoveToMiniMapInteractIcon == 5
STATUS_ICON_NOT_FOUND == "icon_not_found"

MoveToMiniMapInteractIcon_try_interact(scr) ==
    IF scr.can_interact
    THEN [cmds |-> <<stop_moving_forward, interact>>, ret |-> Some(round_wait)]
    ELSE [cmds |-> <<>>, ret |-> None]

\* _get_event_pos: the icon's place on the minimap, None when not matched
MoveToMiniMapInteractIcon_get_event_pos(scr) == scr.icon

MoveToMiniMapInteractIcon_execute_one_round(scr) ==
    IF ~scr.in_world
    THEN [cmds |-> <<>>, ret |-> round_success]
    ELSE LET ti == MoveToMiniMapInteractIcon_try_interact(scr)
             target_pos == MoveToMiniMapInteractIcon_get_event_pos(scr)
         IN IF ti.ret # None
            THEN [cmds |-> ti.cmds, ret |-> ti.ret[1]]
            ELSE IF target_pos = None
                 THEN [cmds |-> <<>>, ret |-> round_retry(STATUS_ICON_NOT_FOUND)]
                 ELSE [cmds |-> <<move_towards(target_pos[1])>>, ret |-> round_wait]

\* mutant: the hook that runs when the operation is done issues no command
MoveToMiniMapInteractIcon_after_operation_done_nothing == <<>>

MoveToMiniMapInteractIcon_after_operation_done == <<stop_moving_forward>>

MoveToMiniMapInteractIcon_on_pause == <<stop_moving_forward>>

\* the frames a round of MoveToMiniMapInteractIcon can sample
IconPlaces == {1}
IconScreens == [in_world : BOOLEAN, can_interact : BOOLEAN,
                icon : {None} \cup {Some(x) : x \in IconPlaces}]

IsMissIconScreen(scr) == scr.in_world /\ ~scr.can_interact /\ scr.icon = None

Icon_Execute ==
    /\ op = "MoveToMiniMapInteractIcon"
    /\ phase \in {"created", "done"}
    /\ hist' = None
    /\ framework_init_before_execute
    /\ UNCHANGED <<op, self, ctl, args, ret>>

Icon_Round ==
    /\ op = "MoveToMiniMapInteractIcon"
    /\ phase = "running"
    /\ ~paused
    /\ \E scr \in IconScreens :
       \E out \in {MoveToMiniMapInteractIcon_execute_one_round(scr)} :
        LET done == finishes(TRY_TIMES_MoveToMiniMapInteractIcon, 1, out.ret)
            issued == IF done
                      THEN out.cmds \o MoveToMiniMapInteractIcon_after_operation_done
                      ELSE out.cmds
        IN /\ screen' = Some(scr)
           /\ cmds' = issued
           /\ ctl' = Actuate(ctl, issued)
           /\ miss_streak' = next_streak(miss_streak, IsMissIconScreen(scr))
           /\ hist' = Some([was_moving |-> ctl.is_moving])
           /\ framework_after_step(TRY_TIMES_MoveToMiniMapInteractIcon, 1, out.ret)
    /\ UNCHANGED <<op, self, args, ret>>

----------------------------------------------------------------------------
(* ResetSimUniLevel *)

OCR_CLICK_SUCCESS == "OCR_CLICK_SUCCESS"
\* ocr_and_click_one_line answers OCR_CLICK_SUCCESS or one of the other codes
OcrClickCodes == {OCR_CLICK_SUCCESS, "OCR_CLICK_FAIL", "OCR_CLICK_NOT_FOUND"}

ResetSimUniLevel_temp_leave(click) ==
    IF click = OCR_CLICK_SUCCESS
    THEN [cmds |-> <<>>, ret |-> round_success]
    ELSE [cmds |-> <<esc>>, ret |-> round_retry("temp_leave_click_failed")]

\* mutant: a failed child is answered by Retry
ResetSimUniLevel_choose_uni_retry(child) ==
    [cmds |-> <<>>,
     ret |-> IF child.success THEN round_success ELSE round_retry("choose_uni_failed")]

ResetSimUniLevel_choose_uni(child) ==
    [cmds |-> <<>>,
     ret |-> IF child.success THEN round_success ELSE round_fail("choose_uni_failed")]

ResetSimUniLevel_continue(child) ==
    [cmds |-> <<>>,
     ret |-> IF child.success THEN round_success ELSE round_fail("continue_failed")]

ResetSimUniLevel_wait(child) ==
    [cmds |-> <<>>,
     ret |-> IF child.success THEN round_success ELSE round_fail("loading_failed")]

\* the terminal results a child operation can report
ChildResults == [success : BOOLEAN, status : {"none", "child_status"}]

ResetSimUniLevel_nodes == 4

\* the node table of __init__: the step bound to node n, applied to its input
ResetSimUniLevel_node_step(n, in) ==
    CASE n = 1 -> ResetSimUniLevel_temp_leave(in.click)
      [] n = 2 -> ResetSimUniLevel_choose_uni(in.child)
      [] n = 3 -> ResetSimUniLevel_continue(in.child)
      [] n = 4 -> ResetSimUniLevel_wait(in.child)

ResetInputs(n) ==
    IF n = 1 THEN [click : OcrClickCodes] ELSE [child : ChildResults]

Reset_Execute ==
    /\ op = "ResetSimUniLevel"
    /\ phase \in {"created", "done"}
    /\ framework_init_before_execute
    /\ UNCHANGED <<op, self, ctl, hist, args, ret>>

Reset_Round ==
    /\ op = "ResetSimUniLevel"
    /\ phase = "running"
    /\ ~paused
    /\ \E in \in ResetInputs(node) :
       \E out \in {ResetSimUniLevel_node_step(node, in)} :
           /\ screen' = Some(in)
           /\ cmds' = out.cmds
           /\ ctl' = Actuate(ctl, out.cmds)
           /\ miss_streak' = next_streak(miss_streak,
                                         node = 1 /\ in.click # OCR_CLICK_SUCCESS)
           /\ framework_after_step(TRY_TIMES_ResetSimUniLevel,
                                   ResetSimUniLevel_nodes, out.ret)
    /\ UNCHANGED <<op, self, hist, args, ret>>

----------------------------------------------------------------------------
(* MoveDirectlyInSimUni *)

STATUS_ENEMY_NOT_FOUND == "enemy_not_found"
RUN_MODE_OFF == "off"
RunModes == {RUN_MODE_OFF, "btn"}
ONE_SECOND == 2    \* the floor of move_time: 1 s

Coords == 0..MaxCoord

\* every timestamp of the object is dt ticks older
AgeOpt(a, dt) == IF a = None THEN None ELSE Some(Min2(a[1] + dt, MaxAge))
AgeBy(s, dt) ==
    [s EXCEPT !.last_rec_age = AgeOpt(@, dt), !.last_battle_age = AgeOpt(@, dt)]

\* controller.cal_move_distance_by_time: distance covered in move_time ticks
cal_move_distance_by_time(move_time, run) == move_time * (IF run THEN 2 ELSE 1)

\* large_map.get_large_map_rect_by_pos: the window searched around the last
\* position; its half-width is the distance that can have been covered
get_large_map_rect_by_pos(possible_pos) ==
    [lo |-> possible_pos[1] - possible_pos[2], hi |-> possible_pos[1] + possible_pos[2]]

\* cal_pos.cal_character_pos_for_sim_uni: the minimap matched inside lm_rect,
\* None when nothing matches there
cal_character_pos_for_sim_uni(mm, lm_rect) ==
    IF mm.vis # None /\ mm.vis[1] >= lm_rect.lo /\ mm.vis[1] <= lm_rect.hi
    THEN mm.vis ELSE None

\* the prediction by dead reckoning the design describes: the last position
\* advanced by the distance covered, toward the target
dead_reckoned(last_pos, move_distance, target) ==
    IF target >= last_pos THEN Min2(last_pos + move_distance, target)
    ELSE Max2(last_pos - move_distance, target)

\* mutant: when matching fails the last position is returned
MoveDirectlyInSimUni_cal_pos_last(s, mm) ==
    LET move_time == IF s.last_rec_age # None
                     THEN Max2(s.last_rec_age[1], ONE_SECOND) ELSE ONE_SECOND
        move_distance == cal_move_distance_by_time(move_time, s.run_mode # RUN_MODE_OFF)
        last_pos == IF s.pos # None THEN s.pos[1] ELSE s.start_pos
        lm_rect == get_large_map_rect_by_pos(<<last_pos, move_distance>>)
        next_pos == cal_character_pos_for_sim_uni(mm, lm_rect)
    IN [next_pos |-> IF s.pos = None THEN Some(s.start_pos)
                     ELSE IF next_pos = None THEN Some(last_pos) ELSE next_pos,
        move_time |-> move_time, move_distance |-> move_distance,
        last_pos |-> last_pos, matched |-> next_pos # None]

\* cal_pos(mm, now_time); last_rec_age is now_time - last_rec_time, None when
\* last_rec_time is still 0
MoveDirectlyInSimUni_cal_pos(s, mm) ==
    LET move_time == IF s.last_rec_age # None
                     THEN Max2(s.last_rec_age[1], ONE_SECOND) ELSE ONE_SECOND
        move_distance == cal_move_distance_by_time(move_time, s.run_mode # RUN_MODE_OFF)
        last_pos == IF s.pos # None THEN s.pos[1] ELSE s.start_pos
        lm_rect == get_large_map_rect_by_pos(<<last_pos, move_distance>>)
        next_pos == cal_character_pos_for_sim_uni(mm, lm_rect)
    IN [next_pos |-> IF s.pos = None THEN Some(s.start_pos) ELSE next_pos,
        move_time |-> move_time, move_distance |-> move_distance,
        last_pos |-> last_pos, matched |-> next_pos # None]

\* SimUniEnterFight(...).execute(): the start of the combat sub-operation, as
\* an entry of the round's trace of calls
enter_fight == Cmd("SimUniEnterFight.execute", <<>>)

no_fight(s) == [self |-> s, cmds |-> <<>>, ret |-> None, fought |-> FALSE]

\* mutant: the position timestamp is not reset after the combat
MoveDirectlyInSimUni_check_enemy_and_attack_no_reset(s, mm, fight) ==
    IF s.no_battle THEN no_fight(s)
    ELSE IF s.last_auto_fight_fail THEN no_fight(s)
    ELSE IF ~mm.under_attack THEN no_fight(s)
    ELSE LET s1 == AgeBy(s, fight.duration)
         IN IF ~fight.success
            THEN [self |-> s1, cmds |-> <<stop_moving_forward, enter_fight>>,
                  ret |-> Some(round_fail(fight.status)), fought |-> TRUE]
            ELSE [self |-> [s1 EXCEPT
                              !.last_auto_fight_fail =
                                  (fight.status = STATUS_ENEMY_NOT_FOUND),
                              !.last_battle_age = Some(0)],
                  cmds |-> <<stop_moving_forward, enter_fight>>,
                  ret |-> Some(round_wait), fought |-> TRUE]

\* mutant: the enemy-not-found status is not remembered
MoveDirectlyInSimUni_check_enemy_and_attack_forget(s, mm, fight) ==
    IF s.no_battle THEN no_fight(s)
    ELSE IF s.last_auto_fight_fail THEN no_fight(s)
    ELSE IF ~mm.under_attack THEN no_fight(s)
    ELSE LET s1 == AgeBy(s, fight.duration)
         IN IF ~fight.success
            THEN [self |-> s1, cmds |-> <<stop_moving_forward, enter_fight>>,
                  ret |-> Some(round_fail(fight.status)), fought |-> TRUE]
            ELSE [self |-> [s1 EXCEPT
                              !.last_auto_fight_fail = FALSE,
                              !.last_battle_age = Some(0),
                              !.last_rec_age = Some(0)],
                  cmds |-> <<stop_moving_forward, enter_fight>>,
                  ret |-> Some(round_wait), fought |-> TRUE]

\* mutant: the combat is entered first, the stop comes after it
MoveDirectlyInSimUni_check_enemy_and_attack_late_stop(s, mm, fight) ==
    IF s.no_battle THEN no_fight(s)
    ELSE IF s.last_auto_fight_fail THEN no_fight(s)
    ELSE IF ~mm.under_attack THEN no_fight(s)
    ELSE LET s1 == AgeBy(s, fight.duration)
         IN IF ~fight.success
            THEN [self |-> s1, cmds |-> <<enter_fight, stop_moving_forward>>,
                  ret |-> Some(round_fail(fight.status)), fought |-> TRUE]
            ELSE [self |-> [s1 EXCEPT
                              !.last_auto_fight_fail =
                                  (fight.status = STATUS_ENEMY_NOT_FOUND),
                              !.last_battle_age = Some(0),
                              !.last_rec_age = Some(0)],
                  cmds |-> <<enter_fight, stop_moving_forward>>,
                  ret |-> Some(round_wait), fought |-> TRUE]

\* mutant: last_auto_fight_fail is not looked at
MoveDirectlyInSimUni_check_enemy_and_attack_no_suppress(s, mm, fight) ==
    IF s.no_battle THEN no_fight(s)
    ELSE IF ~mm.under_attack THEN no_fight(s)
    ELSE LET s1 == AgeBy(s, fight.duration)
         IN IF ~fight.success
            THEN [self |-> s1, cmds |-> <<stop_moving_forward, enter_fight>>,
                  ret |-> Some(round_fail(fight.status)), fought |-> TRUE]
            ELSE [self |-> [s1 EXCEPT
                              !.last_auto_fight_fail =
                                  (fight.status = STATUS_ENEMY_NOT_FOUND),
                              !.last_battle_age = Some(0),
                              !.last_rec_age = Some(0)],
                  cmds |-> <<stop_moving_forward, enter_fight>>,
                  ret |-> Some(round_wait), fought |-> TRUE]

\* check_enemy_and_attack(mm); fight is what SimUniEnterFight.execute() reports
\* if it is run, and how long it takes
MoveDirectlyInSimUni_check_enemy_and_attack(s, mm, fight) ==
    IF s.no_battle THEN no_fight(s)
    ELSE IF s.last_auto_fight_fail THEN no_fight(s)
    ELSE IF ~mm.under_attack THEN no_fight(s)
    ELSE LET s1 == AgeBy(s, fight.duration)
         IN IF ~fight.success
            THEN [self |-> s1, cmds |-> <<stop_moving_forward, enter_fight>>,
                  ret |-> Some(round_fail(fight.status)), fought |-> TRUE]
            ELSE [self |-> [s1 EXCEPT
                              !.last_auto_fight_fail =
                                  (fight.status = STATUS_ENEMY_NOT_FOUND),
                              !.last_battle_age = Some(0),
                              !.last_rec_age = Some(0)],
                  cmds |-> <<stop_moving_forward, enter_fight>>,
                  ret |-> Some(round_wait), fought |-> TRUE]

\* MoveDirectly._execute_one_round, the controlling loop of the base class:
\* a frame that is not the world view is a screen transition (the
\* suppression of combat entry ends); otherwise the enemy check, then the
\* position estimate, then arrival or steering.
MoveDirectly_execute_one_round(s, scr, fight) ==
    IF ~scr.in_world
    THEN [self |-> [s EXCEPT !.last_auto_fight_fail = FALSE], cmds |-> <<>>,
          ret |-> round_wait, fought |-> FALSE, cal |-> None]
    ELSE LET ce == MoveDirectlyInSimUni_check_enemy_and_attack(s, scr.mm, fight)
             cp == MoveDirectlyInSimUni_cal_pos(s, scr.mm)
             s2 == [s EXCEPT !.pos = cp.next_pos, !.last_rec_age = Some(0)]
         IN IF ce.ret # None
            THEN [self |-> ce.self, cmds |-> ce.cmds, ret |-> ce.ret[1],
                  fought |-> ce.fought, cal |-> None]
            ELSE IF cp.next_pos = None
            THEN [self |-> s, cmds |-> <<>>, ret |-> round_wait,
                  fought |-> FALSE, cal |-> Some(cp)]
            ELSE IF cp.next_pos[1] = s.target_pos
            THEN [self |-> s2,
                  cmds |-> IF s.stop_afterwards THEN <<stop_moving_forward>> ELSE <<>>,
                  ret |-> round_success, fought |-> FALSE, cal |-> Some(cp)]
            ELSE [self |-> s2, cmds |-> <<move_towards(s.target_pos)>>,
                  ret |-> round_wait, fought |-> FALSE, cal |-> Some(cp)]

TRY_TIMES_MoveDirectly == 5

MiniMaps == [under_attack : BOOLEAN, vis : {None} \cup {Some(x) : x \in Coords}]
MoveScreens == [in_world : BOOLEAN, mm : MiniMaps]
FightResults == [success : BOOLEAN, status : {STATUS_ENEMY_NOT_FOUND, "none"},
                 duration : 1..MaxCombat]

\* a fight is an input of the round only when the round runs one
NoFight == [success |-> TRUE, status |-> "none", duration |-> 1]
FightsFor(s, scr) ==
    IF MoveDirectly_execute_one_round(s, scr, NoFight).fought
    THEN FightResults ELSE {NoFight}

MoveDirectlyInSimUni_init(no_battle, run_mode) ==
    [no_battle |-> no_battle, run_mode |-> run_mode, stop_afterwards |-> TRUE,
     start_pos |-> 0, target_pos |-> MaxCoord, pos |-> None,
     last_rec_age |-> None, last_battle_age |-> None,
     last_auto_fight_fail |-> FALSE]

MD_Execute ==
    /\ op = "MoveDirectlyInSimUni"
    /\ phase = "created"
    /\ framework_init_before_execute
    /\ UNCHANGED <<op, self, ctl, hist, args, ret>>

MD_Round ==
    /\ op = "MoveDirectlyInSimUni"
    /\ phase = "running"
    /\ ~paused
    /\ \E d \in 1..MaxDelta, scr \in MoveScreens :
       \E fight \in FightsFor(AgeBy(self, d), scr) :
       \E out \in {MoveDirectly_execute_one_round(AgeBy(self, d), scr, fight)} :
        LET dt == d + (IF out.fought THEN fight.duration ELSE 0)
        IN /\ self' = out.self
           /\ screen' = Some(scr)
           /\ cmds' = out.cmds
           /\ ctl' = Actuate(ctl, out.cmds)
           /\ hist' = Some([fight |-> IF out.fought THEN Some(fight) ELSE None,
                            cal |-> out.cal,
                            had_pos |-> self.pos # None,
                            flag_before |-> self.last_auto_fight_fail,
                            combat_age |->
                                IF out.fought THEN Some(0)
                                ELSE IF hist = None THEN None
                                ELSE AgeOpt(hist[1].combat_age, dt)])
           /\ miss_streak' = -1
           /\ framework_after_step(TRY_TIMES_MoveDirectly, 1, out.ret)
    /\ UNCHANGED <<op, args, ret>>

----------------------------------------------------------------------------
(* MoveToNextLevelByRoute *)

TRY_TIMES_MoveToNextLevelByRoute == 5

Point(x, y) == [x |-> x, y |-> y]

RECURSIVE SumSeq(_)
SumSeq(xs) == IF xs = <<>> THEN 0 ELSE Head(xs) + SumSeq(Tail(xs))

\* np.mean(xs, dtype=np.uint8): the sum is accumulated in 8 bits, then divided
mean_uint8(xs) == (SumSeq(xs) % 256) \div Len(xs)

\* cal_utils.get_angle_by_pts: 0 is to the right, clockwise positive (y grows
\* downwards); defined here for the eight compass directions
get_angle_by_pts(from, to) ==
    LET dx == to.x - from.x
        dy == to.y - from.y
    IN IF dy = 0 THEN (IF dx >= 0 THEN 0 ELSE 180)
       ELSE IF dx = 0 THEN (IF dy > 0 THEN 90 ELSE 270)
       ELSE IF dx > 0 THEN (IF dy > 0 THEN 45 ELSE 315)
       ELSE (IF dy > 0 THEN 135 ELSE 225)

MoveToNextLevelByRoute_turn_to_entry(s, in) ==
    IF Len(s.route.event_pos_list) = 0
    THEN [self |-> s, cmds |-> <<>>, ret |-> round_fail("entry_pos_not_configured")]
    ELSE LET avg_pos_x == mean_uint8([i \in 1..Len(s.route.event_pos_list) |->
                                         s.route.event_pos_list[i].x])
             avg_pos_y == mean_uint8([i \in 1..Len(s.route.event_pos_list) |->
                                         s.route.event_pos_list[i].y])
             target_pos == Point(avg_pos_x, avg_pos_y)
         IN [self |-> s,
             cmds |-> <<turn_by_pos(s.current_pos, target_pos, in.angle)>>,
             ret |-> round_success]

\* the first position of next_pos_list, from index i on, that lies on the
\* side the entrance is seen on; None when there is none
RECURSIVE first_pos_on_side(_, _, _, _)
first_pos_on_side(s, angle, target_on_left, i) ==
    IF i > Len(s.route.next_pos_list) THEN None
    ELSE LET pos == s.route.next_pos_list[i]
             opt_angle == get_angle_by_pts(s.current_pos, pos)
             opt_on_left == opt_angle < angle /\ angle - opt_angle < 180
         IN IF target_on_left = opt_on_left THEN Some(pos)
            ELSE first_pos_on_side(s, angle, target_on_left, i + 1)

MoveToNextLevelByRoute_get_target_pos(s, in) ==
    IF Len(s.route.next_pos_list) = 1
    THEN [self |-> [s EXCEPT !.target_pos = Some(s.route.next_pos_list[1])],
          cmds |-> <<>>, ret |-> round_success]
    ELSE LET next_level_type_list == get_next_level_type(in)
         IN IF Len(next_level_type_list) = 0
            THEN [self |-> s, cmds |-> <<>>, ret |-> round_retry("entry_not_recognised")]
            ELSE LET priority_entry == match_best_level_type(next_level_type_list,
                                                             s.level_priority)
                     target_on_left ==
                         (STANDARD_RESOLUTION_W \div 2)
                             > next_level_type_list[priority_entry + 1].center_x
                     found == first_pos_on_side(s, in.angle, target_on_left, 1)
                 IN IF found # None
                    THEN [self |-> [s EXCEPT !.target_pos = found],
                          cmds |-> <<>>, ret |-> round_success]
                    ELSE [self |-> s, cmds |-> <<>>,
                          ret |-> round_retry("entry_pos_not_matched")]

\* _move: the walk to target_pos is a child MoveDirectlyInSimUni
MoveToNextLevelByRoute_move(s, in) ==
    [self |-> s, cmds |-> <<>>, ret |-> round_by_op(in.child)]

\* _interact: the child Interact operation
MoveToNextLevelByRoute_interact(s, in) ==
    [self |-> s, cmds |-> <<>>, ret |-> round_by_op(in.child)]

MoveToNextLevelByRoute_nodes == 4

\* the node table of __init__: turn, get_pos, move, interact, each with the
\* method it is bound to; the node named move is bound to self._get_target_pos
MoveToNextLevelByRoute_node_func(n) ==
    CASE n = 1 -> "_turn_to_entry"
      [] n = 2 -> "_get_target_pos"
      [] n = 3 -> "_get_target_pos"
      [] n = 4 -> "_interact"

\* the step of node n: the method the node is bound to, applied to its input
MoveToNextLevelByRoute_node_step(n, s, in) ==
    LET func == MoveToNextLevelByRoute_node_func(n)
    IN CASE func = "_turn_to_entry" -> MoveToNextLevelByRoute_turn_to_entry(s, in)
         [] func = "_get_target_pos" -> MoveToNextLevelByRoute_get_target_pos(s, in)
         [] func = "_move" -> MoveToNextLevelByRoute_move(s, in)
         [] func = "_interact" -> MoveToNextLevelByRoute_interact(s, in)

\* what a node's step samples
MmAngles == {45, 315}
RouteInputs(n) ==
    LET func == MoveToNextLevelByRoute_node_func(n)
    IN IF func \in {"_move", "_interact"} THEN [child : ChildResults]
       ELSE IF func = "_turn_to_entry" THEN [angle : MmAngles]
       ELSE [matches : MatchSets, angle : MmAngles]

\* seen from current_pos these lie at bearings 0, 90 and 315
RoutePoints == {Point(200, 100), Point(100, 200), Point(200, 0)}
\* the entrance icons of a level, in the order the route lists them
EventPoints == [i \in 1..MaxRoute |-> IF i % 2 = 1 THEN Point(200, 100)
                                      ELSE Point(100, 200)]
Routes == [event_pos_list : {SubSeq(EventPoints, 1, n) : n \in 0..MaxRoute},
           next_pos_list : SeqsUpTo(RoutePoints, MaxRoute)]

MoveToNextLevelByRoute_init(route, level_priority) ==
    [level_priority |-> level_priority, route |-> route,
     current_pos |-> Point(100, 100), target_pos |-> None]

Route_Execute ==
    /\ op = "MoveToNextLevelByRoute"
    /\ phase \in {"created", "done"}
    /\ self' = [self EXCEPT !.target_pos = None]
    /\ hist' = None
    /\ framework_init_before_execute
    /\ UNCHANGED <<op, ctl, args, ret>>

Route_Round ==
    /\ op = "MoveToNextLevelByRoute"
    /\ phase = "running"
    /\ ~paused
    /\ \E in \in RouteInputs(node) :
       \E out \in {MoveToNextLevelByRoute_node_step(node, self, in)} :
           /\ self' = out.self
           /\ screen' = Some(in)
           /\ cmds' = out.cmds
           /\ ctl' = Actuate(ctl, out.cmds)
           /\ miss_streak' = -1
           /\ hist' = Some([node |-> node,
                            func |-> MoveToNextLevelByRoute_node_func(node)])
           /\ framework_after_step(TRY_TIMES_MoveToNextLevelByRoute,
                                   MoveToNextLevelByRoute_nodes, out.ret)
    /\ UNCHANGED <<op, args, ret>>

----------------------------------------------------------------------------
(* ClaimTraining *)

\* Application.__init__ passes no try_times: the framework's default
TRY_TIMES_ClaimTraining == 2

click == Cmd("click", <<>>)

\* a round that falls off the end of _execute_one_round returns None
round_none == [result |-> "NONE", status |-> "none"]

\* mutant: the last phase moves on after the menu is open again
ClaimTraining_execute_one_round_past_last(s, in) ==
    CASE s.phase = 0 ->
            IF in.child
            THEN [self |-> [s EXCEPT !.phase = @ + 1], cmds |-> <<>>, ret |-> round_wait]
            ELSE [self |-> s, cmds |-> <<>>, ret |-> round_fail("none")]
      [] s.phase = 1 ->
            IF ~in.found
            THEN [self |-> s, cmds |-> <<>>, ret |-> round_success]
            ELSE [self |-> [s EXCEPT !.phase = @ + 1], cmds |-> <<click>>,
                  ret |-> round_wait]
      [] s.phase \in {2, 3} ->
            IF ~in.found
            THEN [self |-> [s EXCEPT !.phase = @ + 1], cmds |-> <<>>, ret |-> round_wait]
            ELSE [self |-> s, cmds |-> <<click>>, ret |-> round_wait]
      [] s.phase = 4 ->
            IF in.child
            THEN [self |-> [s EXCEPT !.phase = @ + 1], cmds |-> <<>>, ret |-> round_wait]
            ELSE [self |-> s, cmds |-> <<>>, ret |-> round_fail("none")]
      [] OTHER -> [self |-> s, cmds |-> <<>>, ret |-> round_none]

\* mutant: a claim click in phase 2 moves on to the next phase
ClaimTraining_execute_one_round_click_advances(s, in) ==
    CASE s.phase = 0 ->
            IF in.child
            THEN [self |-> [s EXCEPT !.phase = @ + 1], cmds |-> <<>>, ret |-> round_wait]
            ELSE [self |-> s, cmds |-> <<>>, ret |-> round_fail("none")]
      [] s.phase = 1 ->
            IF ~in.found
            THEN [self |-> s, cmds |-> <<>>, ret |-> round_success]
            ELSE [self |-> [s EXCEPT !.phase = @ + 1], cmds |-> <<click>>,
                  ret |-> round_wait]
      [] s.phase = 2 ->
            IF ~in.found
            THEN [self |-> [s EXCEPT !.phase = @ + 1], cmds |-> <<>>, ret |-> round_wait]
            ELSE [self |-> [s EXCEPT !.phase = @ + 1], cmds |-> <<click>>,
                  ret |-> round_wait]
      [] s.phase = 3 ->
            IF ~in.found
            THEN [self |-> [s EXCEPT !.phase = @ + 1], cmds |-> <<>>, ret |-> round_wait]
            ELSE [self |-> s, cmds |-> <<click>>, ret |-> round_wait]
      [] s.phase = 4 ->
            IF in.child
            THEN [self |-> s, cmds |-> <<>>, ret |-> round_success]
            ELSE [self |-> s, cmds |-> <<>>, ret |-> round_fail("none")]
      [] OTHER -> [self |-> s, cmds |-> <<>>, ret |-> round_none]

\* _execute_one_round: one branch per phase; in.child is what
\* OpenPhoneMenu.execute() answered, in.found whether the button was matched
ClaimTraining_execute_one_round(s, in) ==
    CASE s.phase = 0 ->
            IF in.child
            THEN [self |-> [s EXCEPT !.phase = @ + 1], cmds |-> <<>>, ret |-> round_wait]
            ELSE [self |-> s, cmds |-> <<>>, ret |-> round_fail("none")]
      [] s.phase = 1 ->
            IF ~in.found
            THEN [self |-> s, cmds |-> <<>>, ret |-> round_success]
            ELSE [self |-> [s EXCEPT !.phase = @ + 1], cmds |-> <<click>>,
                  ret |-> round_wait]
      [] s.phase = 2 ->
            IF ~in.found
            THEN [self |-> [s EXCEPT !.phase = @ + 1], cmds |-> <<>>, ret |-> round_wait]
            ELSE [self |-> s, cmds |-> <<click>>, ret |-> round_wait]
      [] s.phase = 3 ->
            IF ~in.found
            THEN [self |-> [s EXCEPT !.phase = @ + 1], cmds |-> <<>>, ret |-> round_wait]
            ELSE [self |-> s, cmds |-> <<click>>, ret |-> round_wait]
      [] s.phase = 4 ->
            IF in.child
            THEN [self |-> s, cmds |-> <<>>, ret |-> round_success]
            ELSE [self |-> s, cmds |-> <<>>, ret |-> round_fail("none")]
      [] OTHER -> [self |-> s, cmds |-> <<>>, ret |-> round_none]

\* what a round samples in phase p
ClaimTrainingInputs(p) ==
    IF p \in {0, 4} THEN [child : BOOLEAN] ELSE [found : BOOLEAN]

ClaimTraining_init == [phase |-> 0]

\* execute(): ClaimTraining has no _init_before_execute, self.phase is kept
CT_Execute ==
    /\ op = "ClaimTraining"
    /\ phase \in {"created", "done"}
    /\ framework_init_before_execute
    /\ UNCHANGED <<op, self, ctl, hist, args, ret>>

\* one iteration of execute(); a round that returned None leaves the
\* operation without a result
CT_Round ==
    /\ op = "ClaimTraining"
    /\ phase = "running"
    /\ ~paused
    /\ \E in \in ClaimTrainingInputs(self.phase) :
       \E out \in {ClaimTraining_execute_one_round(self, in)} :
           /\ self' = out.self
           /\ screen' = Some(in)
           /\ cmds' = out.cmds
           /\ ctl' = Actuate(ctl, out.cmds)
           /\ miss_streak' = -1
           /\ IF out.ret = round_none
              THEN /\ phase' = "done"
                   /\ round_result' = None
                   /\ op_result' = None
                   /\ UNCHANGED <<node, op_round, paused>>
              ELSE framework_after_step(TRY_TIMES_ClaimTraining, 1, out.ret)
    /\ UNCHANGED <<op, hist, args, ret>>

----------------------------------------------------------------------------
(* ImageHolder *)

\* a Python dict is a function whose domain is the set of its keys
EmptyDict == <<>>
DictSet(d, k, v) == [x \in (DOMAIN d) \cup {k} |-> IF x = k THEN v ELSE d[x]]
DictDel(d, k) == [x \in (DOMAIN d) \ {k} |-> d[x]]

\* '%s_%s_%s' % (planet, region, map_type)
ImageHolder_get_key_for_map(planet, region, map_type) ==
    planet \o "_" \o region \o "_" \o map_type

\* '%s_%d' % (template_id, rotate_angle); a template's own key is its id
TemplateKey(template_id) == template_id
rotate_key(template_id, rotate_angle) == template_id \o "_" \o ToString(rotate_angle)

\* the calls an ImageHolder method makes to a load method, in order
load_large_map_call(key) == Cmd("load_large_map", <<key>>)
load_template_call(template_id) == Cmd("load_template", <<template_id>>)

\* cv2_utils.read_image and TemplateImage() make a new object on every load:
\* gen is the identity of the object, the number of the load that made it
\* (n loads were made before this one)
\* mutant: the result of the read is stored whether or not there is an image
ImageHolder_load_large_map_store_always(s, storage, n, planet, region, map_type) ==
    LET key == ImageHolder_get_key_for_map(planet, region, map_type)
        image == IF key \in storage.map_files
                 THEN Some([file |-> key, gen |-> n + 1])
                 ELSE None
    IN [self |-> [s EXCEPT !.large_map =
                     DictSet(@, key, IF image # None THEN image[1] ELSE None)],
        cmds |-> <<load_large_map_call(key)>>,
        ret |-> image]

ImageHolder_load_large_map(s, storage, n, planet, region, map_type) ==
    LET key == ImageHolder_get_key_for_map(planet, region, map_type)
        image == IF key \in storage.map_files
                 THEN Some([file |-> key, gen |-> n + 1])
                 ELSE None
    IN [self |-> IF image # None
                 THEN [s EXCEPT !.large_map = DictSet(@, key, image[1])]
                 ELSE s,
        cmds |-> <<load_large_map_call(key)>>,
        ret |-> image]

ImageHolder_pop_large_map(s, storage, n, planet, region, map_type) ==
    LET key == ImageHolder_get_key_for_map(planet, region, map_type)
    IN [self |-> IF key \in DOMAIN s.large_map
                 THEN [s EXCEPT !.large_map = DictDel(@, key)]
                 ELSE s,
        cmds |-> <<>>,
        ret |-> None]

ImageHolder_get_large_map(s, storage, n, planet, region, map_type) ==
    LET key == ImageHolder_get_key_for_map(planet, region, map_type)
    IN IF key \notin DOMAIN s.large_map
       THEN ImageHolder_load_large_map(s, storage, n, planet, region, map_type)
       ELSE [self |-> s, cmds |-> <<>>, ret |-> Some(s.large_map[key])]

ImageHolder_load_template(s, storage, n, template_id) ==
    IF template_id \notin storage.template_dirs
    THEN [self |-> s, cmds |-> <<load_template_call(template_id)>>, ret |-> None]
    ELSE LET template == [template |-> template_id, gen |-> n + 1, rotated |-> 0]
         IN [self |-> [s EXCEPT !.template = DictSet(@, TemplateKey(template_id), template)],
             cmds |-> <<load_template_call(template_id)>>,
             ret |-> Some(template)]

ImageHolder_pop_template(s, storage, n, template_id) ==
    [self |-> IF TemplateKey(template_id) \in DOMAIN s.template
              THEN [s EXCEPT !.template = DictDel(@, TemplateKey(template_id))]
              ELSE s,
     cmds |-> <<>>,
     ret |-> None]

\* the rotated image is a new object made from the template it is given
ImageHolder_rotate_template(template, rotate_angle) ==
    [template EXCEPT !.rotated = rotate_angle]

\* get_template with rotate_angle = 0
ImageHolder_get_template_0(s, storage, n, template_id) ==
    IF TemplateKey(template_id) \in DOMAIN s.template
    THEN [self |-> s, cmds |-> <<>>, ret |-> Some(s.template[TemplateKey(template_id)])]
    ELSE ImageHolder_load_template(s, storage, n, template_id)

ImageHolder_get_template(s, storage, n, template_id, rotate_angle) ==
    IF rotate_angle = 0
    THEN ImageHolder_get_template_0(s, storage, n, template_id)
    ELSE LET key == rotate_key(template_id, rotate_angle)
         IN IF key \in DOMAIN s.template
            THEN [self |-> s, cmds |-> <<>>, ret |-> Some(s.template[key])]
            ELSE LET got == ImageHolder_get_template_0(s, storage, n, template_id)
                 IN IF got.ret # None
                    THEN LET rotate_template ==
                                 ImageHolder_rotate_template(got.ret[1], rotate_angle)
                         IN [self |-> [got.self EXCEPT
                                          !.template = DictSet(@, key, rotate_template)],
                             cmds |-> got.cmds,
                             ret |-> Some(rotate_template)]
                    ELSE [self |-> got.self, cmds |-> got.cmds, ret |-> None]

ImageHolder_init == [large_map |-> EmptyDict, template |-> EmptyDict]

\* the arguments the methods are called with, and what storage can hold
Maps == {[planet |-> "P1", region |-> r, map_type |-> "origin"] : r \in {"R1", "R2"}}
MapKeys == {ImageHolder_get_key_for_map(m.planet, m.region, m.map_type) : m \in Maps}
TemplateIds == {"t1", "t2"}
RotateAngles == {0, 90}
Storages == [map_files : SUBSET MapKeys, template_dirs : SUBSET TemplateIds]

\* a method call returned: the cache, the loads it made, what it returned,
\* and as history the call and the cache it found
IH_Return(call, out) ==
    /\ ctl.loads + Len(out.cmds) <= MaxLoads
    /\ self' = out.self
    /\ cmds' = out.cmds
    /\ ret' = out.ret
    /\ ctl' = [ctl EXCEPT !.loads = @ + Len(out.cmds)]
    /\ hist' = Some([call |-> call, before |-> self])
    /\ UNCHANGED <<op, phase, paused, node, op_round, round_result, op_result,
                   screen, miss_streak, args>>

IH_load_large_map ==
    /\ op = "ImageHolder"
    /\ \E m \in Maps :
          IH_Return([method |-> "load_large_map", arg |-> m],
                    ImageHolder_load_large_map(self, args, ctl.loads,
                                               m.planet, m.region, m.map_type))

IH_pop_large_map ==
    /\ op = "ImageHolder"
    /\ \E m \in Maps :
          IH_Return([method |-> "pop_large_map", arg |-> m],
                    ImageHolder_pop_large_map(self, args, ctl.loads,
                                              m.planet, m.region, m.map_type))

IH_get_large_map ==
    /\ op = "ImageHolder"
    /\ \E m \in Maps :
          IH_Return([method |-> "get_large_map", arg |-> m],
                    ImageHolder_get_large_map(self, args, ctl.loads,
                                              m.planet, m.region, m.map_type))

IH_load_template ==
    /\ op = "ImageHolder"
    /\ \E t \in TemplateIds :
          IH_Return([method |-> "load_template",
                     arg |-> [template_id |-> t, rotate_angle |-> 0]],
                    ImageHolder_load_template(self, args, ctl.loads, t))

IH_pop_template ==
    /\ op = "ImageHolder"
    /\ \E t \in TemplateIds :
          IH_Return([method |-> "pop_template",
                     arg |-> [template_id |-> t, rotate_angle |-> 0]],
                    ImageHolder_pop_template(self, args, ctl.loads, t))

IH_get_template ==
    /\ op = "ImageHolder"
    /\ \E t \in TemplateIds, a \in RotateAngles :
          IH_Return([method |-> "get_template",
                     arg |-> [template_id |-> t, rotate_angle |-> a]],
                    ImageHolder_get_template(self, args, ctl.loads, t, a))

----------------------------------------------------------------------------

(* The pure functions, applied to arguments drawn by Init *)

MatchResults == [center_x : {460}, data : {LevelType(k) : k \in Kinds}]
TypeLists == SeqsUpTo(MatchResults, MaxLen) \ {<<>>}
Priorities == {None} \cup {Some([id_list |-> ids]) : ids \in SeqsUpTo(PriorityIds, MaxPrio)}

Call_match_best_level_type ==
    /\ op = "match_best_level_type"
    /\ ret = None
    /\ ret' = Some(match_best_level_type(args.type_list, args.level_priority))
    /\ UNCHANGED <<op, phase, paused, node, op_round, round_result, op_result,
                   self, screen, ctl, cmds, miss_streak, hist, args>>

Call_get_next_level_type ==
    /\ op = "get_next_level_type"
    /\ ret = None
    /\ ret' = Some(get_next_level_type(args.screen))
    /\ UNCHANGED <<op, phase, paused, node, op_round, round_result, op_result,
                   self, screen, ctl, cmds, miss_streak, hist, args>>

----------------------------------------------------------------------------
(* Pause and resume *)

\* Operation.on_pause of the framework issues no command
Operation_on_pause == <<>>

\* MoveDirectly.on_pause, which MoveDirectlyInSimUni inherits: the stop hook
\* of a component that commands continuous motion
MoveDirectly_on_pause == <<stop_moving_forward>>

\* the on_pause that runs for an operation of class o: the framework's, then
\* what the class adds when it overrides it (MoveToNextLevel does not)
on_pause_cmds(o) ==
    CASE o = "MoveToNextLevel" -> Operation_on_pause
      [] o = "MoveToMiniMapInteractIcon" ->
            Operation_on_pause \o MoveToMiniMapInteractIcon_on_pause
      [] o = "MoveDirectlyInSimUni" -> Operation_on_pause \o MoveDirectly_on_pause
      [] OTHER -> Operation_on_pause

Pause ==
    /\ phase = "running"
    /\ ~paused
    /\ paused' = TRUE
    /\ cmds' = on_pause_cmds(op)
    /\ ctl' = Actuate(ctl, on_pause_cmds(op))
    /\ UNCHANGED <<op, phase, node, op_round, round_result, op_result, self,
                   screen, miss_streak, hist, args, ret>>

Resume ==
    /\ phase = "running"
    /\ paused
    /\ paused' = FALSE
    /\ cmds' = <<>>
    /\ UNCHANGED <<op, phase, node, op_round, round_result, op_result, self,
                   screen, ctl, miss_streak, hist, args, ret>>

----------------------------------------------------------------------------
(* Specification *)

InitFramework ==
    /\ phase = "created"
    /\ paused = FALSE
    /\ node = 1
    /\ op_round = 0
    /\ round_result = None
    /\ op_result = None
    /\ screen = None
    /\ ctl = [is_moving |-> FALSE]
    /\ cmds = <<>>
    /\ miss_streak = 0
    /\ hist = None

Init_MoveToNextLevel ==
    /\ op = "MoveToNextLevel"
    /\ InitFramework
    /\ \E p \in OpPriorities : self = MoveToNextLevel_init(p)
    /\ args = None
    /\ ret = None

Init_match_best_level_type ==
    /\ op = "match_best_level_type"
    /\ InitFramework
    /\ self = None
    /\ args \in [type_list : TypeLists, level_priority : Priorities]
    /\ ret = None

Init_get_next_level_type ==
    /\ op = "get_next_level_type"
    /\ InitFramework
    /\ self = None
    /\ args \in [screen : Screens]
    /\ ret = None

Init_MoveToMiniMapInteractIcon ==
    /\ op = "MoveToMiniMapInteractIcon"
    /\ InitFramework
    /\ self = None
    /\ args = None
    /\ ret = None

Init_ResetSimUniLevel ==
    /\ op = "ResetSimUniLevel"
    /\ InitFramework
    /\ self = None
    /\ args = None
    /\ ret = None

Init_MoveDirectlyInSimUni ==
    /\ op = "MoveDirectlyInSimUni"
    /\ InitFramework
    /\ \E nb \in BOOLEAN, rm \in RunModes : self = MoveDirectlyInSimUni_init(nb, rm)
    /\ args = None
    /\ ret = None

Init_MoveToNextLevelByRoute ==
    /\ op = "MoveToNextLevelByRoute"
    /\ InitFramework
    /\ \E r \in Routes, p \in OpPriorities : self = MoveToNextLevelByRoute_init(r, p)
    /\ args = None
    /\ ret = None

Init_ClaimTraining ==
    /\ op = "ClaimTraining"
    /\ InitFramework
    /\ self = ClaimTraining_init
    /\ args = None
    /\ ret = None

\* ImageHolder.__init__: both caches empty; storage is what Init draws
Init_ImageHolder ==
    /\ op = "ImageHolder"
    /\ phase = "created"
    /\ paused = FALSE
    /\ node = 1
    /\ op_round = 0
    /\ round_result = None
    /\ op_result = None
    /\ screen = None
    /\ ctl = [loads |-> 0]
    /\ cmds = <<>>
    /\ miss_streak = 0
    /\ hist = None
    /\ self = ImageHolder_init
    /\ args \in Storages
    /\ ret = None

Init ==
    \/ Init_MoveToNextLevel
    \/ Init_ImageHolder
    \/ Init_ClaimTraining
    \/ Init_MoveToNextLevelByRoute
    \/ Init_MoveDirectlyInSimUni
    \/ Init_MoveToMiniMapInteractIcon
    \/ Init_ResetSimUniLevel
    \/ Init_match_best_level_type
    \/ Init_get_next_level_type

Next ==
    \/ NL_Execute
    \/ NL_Round
    \/ Icon_Execute
    \/ Icon_Round
    \/ Reset_Execute
    \/ Reset_Round
    \/ MD_Execute
    \/ MD_Round
    \/ Route_Execute
    \/ Route_Round
    \/ CT_Execute
    \/ CT_Round
    \/ Call_match_best_level_type
    \/ Call_get_next_level_type
    \/ IH_load_large_map
    \/ IH_pop_large_map
    \/ IH_get_large_map
    \/ IH_load_template
    \/ IH_pop_template
    \/ IH_get_template
    \/ Pause
    \/ Resume

Spec == Init /\ [][Next]_vars

----------------------------------------------------------------------------
(* Claims *)

NavigationOps == {"MoveToNextLevel", "MoveToMiniMapInteractIcon", "MoveDirectlyInSimUni"}

\* C1: an operation whose step answers Retry on every invocation
\* (MoveToNextLevel: no prompt and no entrance in any frame; ResetSimUniLevel:
\* the click on the first node never succeeds) has invoked the step at most
\* try_times times (5, 10), is finished exactly when it has invoked it
\* try_times times, and is then failed with the retry-exhausted reason.
C1_RetryExhaustedAfterTryTimes ==
    (op \in {"MoveToNextLevel", "ResetSimUniLevel"} /\ miss_streak >= 0) =>
        LET n == IF op = "MoveToNextLevel" THEN 5 ELSE 10
        IN /\ miss_streak <= n
           /\ (phase = "done") <=> (miss_streak = n)
           /\ (phase = "done") => op_result = Some(op_fail(RetryExhausted))
           /\ (phase = "running" /\ round_result # None) =>
                  round_result[1].result = "RETRY"

C1_Witness ==
    /\ op = "MoveToNextLevel"
    /\ phase = "done"
    /\ miss_streak = 5
    /\ op_result = Some(op_fail(RetryExhausted))

\* a step of an operation's execute loop (not Execute, Pause or Resume)
IsRoundStep == phase = "running" /\ ~paused /\ ~paused' /\ screen' # None

\* C2: a round of MoveToNextLevel that is spent still moving, or that starts a
\* move, or that fires the interact command, returns Wait and leaves the
\* retries consumed (op_round) as they were and the operation running; op_round
\* grows, by one, only in a round that returns Retry.
C2_WaitKeepsRetryBudget ==
    [][(op = "MoveToNextLevel" /\ IsRoundStep) =>
         LET scr == screen'[1]
             succeeded == self.interacted /\ ~scr.in_world
             waits == ~succeeded /\ (scr.can_interact \/ self.is_moving
                                       \/ \E k \in Kinds : scr.matches[k] # None)
         IN /\ waits => /\ round_result' = Some(round_wait)
                        /\ op_round' = op_round
                        /\ phase' = "running"
            /\ op_round' = op_round
                  + (IF round_result'[1].result = "RETRY" THEN 1 ELSE 0)]_vars

C2_Witness ==
    /\ op = "MoveToNextLevel"
    /\ phase = "running"
    /\ op_round = 4
    /\ round_result = Some(round_wait)
    /\ self.is_moving
    /\ cmds = <<>>

\* the kinds of the priority list (by position) that are among the matches
PresentPriorities(type_list, ids) ==
    {i \in 1..Len(ids) : \E idx \in 1..Len(type_list) :
                            type_list[idx].data.type_id = ids[i]}

\* C3: for a non-empty type_list and a priority id list of which some kind is
\* among the matches, match_best_level_type returns a valid index of a match
\* whose kind is the earliest such entry of the priority list.
C3_EarliestPriorityWins ==
    (op = "match_best_level_type" /\ ret # None /\ args.level_priority # None) =>
        LET ids == args.level_priority[1].id_list
            present == PresentPriorities(args.type_list, ids)
        IN present # {} =>
              /\ ret[1] \in 0..(Len(args.type_list) - 1)
              /\ args.type_list[ret[1] + 1].data.type_id = ids[MinOf(present)]

C3_Witness ==
    /\ op = "match_best_level_type"
    /\ ret = Some(1)
    /\ args.level_priority = Some([id_list |-> <<2, 1>>])
    /\ args.type_list[1].data.type_id = 1
    /\ args.type_list[2].data.type_id = 2

\* C4: for a non-empty type_list, match_best_level_type returns a valid index,
\* and it returns 0 when the priority is None, when its id list is empty, when
\* it holds only ids no catalogue entry has, or when none of its kinds is
\* among the matches.
C4_NoUsablePriorityGivesZero ==
    (op = "match_best_level_type" /\ ret # None) =>
        /\ ret[1] \in 0..(Len(args.type_list) - 1)
        /\ (\/ args.level_priority = None
            \/ PresentPriorities(args.type_list, args.level_priority[1].id_list) = {})
              => ret[1] = 0

C4_Witness ==
    /\ op = "match_best_level_type"
    /\ ret = Some(0)
    /\ Len(args.type_list) = 2
    /\ args.level_priority = Some([id_list |-> <<0>>])

\* C5: get_next_level_type returns a list that holds exactly one entry for
\* each catalogue kind whose template matched the frame, tagged with that kind
\* and with the match's centre, in catalogue order; it is the empty list when
\* no template matched.
C5_OneEntryPerMatchedKind ==
    (op = "get_next_level_type" /\ ret # None) =>
        LET list == ret[1]
            matched == {k \in Kinds : args.screen.matches[k] # None}
        IN /\ Len(list) = Cardinality(matched)
           /\ \A k \in matched : \E i \in 1..Len(list) :
                  /\ list[i].data = LevelType(k)
                  /\ list[i].center_x = args.screen.matches[k][1]
           /\ \A i, j \in 1..Len(list) :
                  i < j => list[i].data.type_id < list[j].data.type_id
           /\ (matched = {}) => list = <<>>

C5_Witness ==
    /\ op = "get_next_level_type"
    /\ ret # None
    /\ args.screen.matches[1] = None
    /\ args.screen.matches[NumKinds] # None
    /\ Len(ret[1]) >= 1

\* C6: while a navigation operation is paused, forward motion has been
\* stopped: the pause issued stop_moving_forward, also from the state in which
\* motion had been started and not yet stopped.
C6_PauseStopsForwardMotion ==
    (op \in NavigationOps /\ paused) => ~ctl.is_moving

\* C7 as stated: a combat sub-Operation that returns Fail with the
\* enemy-not-found status does not fail MoveDirectlyInSimUni; the round
\* yields Wait.
C7_FailedCombatYieldsWait ==
    (op = "MoveDirectlyInSimUni" /\ hist # None /\ hist[1].fight # None) =>
        ((~hist[1].fight[1].success
            /\ hist[1].fight[1].status = STATUS_ENEMY_NOT_FOUND)
           => (round_result = Some(round_wait) /\ phase = "running"))

\* C7, amended: a combat sub-Operation that returns Success with the
\* enemy-not-found status yields Wait, keeps the operation running and sets
\* last_auto_fight_fail; a round that starts with last_auto_fight_fail set
\* runs no combat, whatever the minimap shows; a combat sub-Operation that
\* returns Fail fails the operation with the combat's status.
C7_NotFoundSuccessSuppressesCombat ==
    (op = "MoveDirectlyInSimUni" /\ hist # None) =>
        /\ hist[1].fight # None =>
              IF hist[1].fight[1].success
              THEN /\ round_result = Some(round_wait)
                   /\ phase = "running"
                   /\ self.last_auto_fight_fail
                        = (hist[1].fight[1].status = STATUS_ENEMY_NOT_FOUND)
              ELSE /\ phase = "done"
                   /\ op_result = Some(op_fail(hist[1].fight[1].status))
        /\ hist[1].flag_before => hist[1].fight = None

C7_Witness ==
    /\ op = "MoveDirectlyInSimUni"
    /\ hist # None
    /\ hist[1].flag_before
    /\ screen[1].in_world
    /\ screen[1].mm.under_attack
    /\ hist[1].fight = None
    /\ round_result = Some(round_wait)
    /\ self.last_auto_fight_fail

\* C8: once a combat sub-Operation has been run and has returned, the age of
\* last_rec_time never exceeds the time since the combat resolved, and the
\* elapsed move time a later cal_pos uses is at most the time since the
\* combat resolved (or the floor of one second): it never includes the combat.
C8_MoveTimeExcludesCombat ==
    (op = "MoveDirectlyInSimUni" /\ hist # None /\ hist[1].combat_age # None
        /\ phase = "running") =>
        /\ self.last_rec_age # None
        /\ self.last_rec_age[1] <= hist[1].combat_age[1]
        /\ hist[1].fight # None => self.last_rec_age = Some(0)
        /\ hist[1].cal # None =>
              hist[1].cal[1].move_time <= Max2(ONE_SECOND, hist[1].combat_age[1])

C8_Witness ==
    /\ op = "MoveDirectlyInSimUni"
    /\ hist # None
    /\ hist[1].cal # None
    /\ hist[1].had_pos
    /\ hist[1].combat_age = Some(3)
    /\ hist[1].cal[1].move_time = 3

\* C9 as stated: when the visual correction fails, cal_pos returns the
\* dead-reckoned prediction.
C9_FallbackIsDeadReckoned ==
    (op = "MoveDirectlyInSimUni" /\ hist # None /\ hist[1].cal # None
        /\ hist[1].had_pos /\ ~hist[1].cal[1].matched) =>
        hist[1].cal[1].next_pos
            = Some(dead_reckoned(hist[1].cal[1].last_pos,
                                 hist[1].cal[1].move_distance, self.target_pos))

\* C9, amended: when a position has been recorded and the visual correction
\* fails, cal_pos returns an absent position (None); when no position has
\* been recorded yet it returns start_pos; otherwise it returns the matched
\* position.
C9_FallbackIsAbsentPosition ==
    (op = "MoveDirectlyInSimUni" /\ hist # None /\ hist[1].cal # None) =>
        LET cal == hist[1].cal[1]
        IN /\ (hist[1].had_pos /\ ~cal.matched) => cal.next_pos = None
           /\ ~hist[1].had_pos => cal.next_pos = Some(self.start_pos)
           /\ (hist[1].had_pos /\ cal.matched) => cal.next_pos = screen[1].mm.vis

C9_Witness ==
    /\ op = "MoveDirectlyInSimUni"
    /\ hist # None
    /\ hist[1].cal # None
    /\ hist[1].had_pos
    /\ ~hist[1].cal[1].matched
    /\ hist[1].cal[1].next_pos = None
    /\ phase = "running"

\* C10: when the route's event_pos_list or next_pos_list is empty,
\* MoveToNextLevelByRoute never answers with a Retry.
C10_EmptyRouteDataNeverRetried ==
    (op = "MoveToNextLevelByRoute" /\ round_result # None
        /\ (self.route.event_pos_list = <<>> \/ self.route.next_pos_list = <<>>)) =>
        round_result[1].result # "RETRY"

----------------------------------------------------------------------------
(* The scheduling of execute(): while an operation runs and is not paused
   the loop keeps invoking its step, also when pauses come and go; a paused
   operation is resumed. *)
FairSpec ==
    /\ Spec
    /\ SF_vars(NL_Round) /\ SF_vars(Icon_Round) /\ SF_vars(Reset_Round)
    /\ SF_vars(MD_Round) /\ SF_vars(Route_Round) /\ SF_vars(CT_Round)
    /\ WF_vars(Resume)

\* C11: every run of MoveToNextLevel and of MoveToMiniMapInteractIcon ends:
\* a running navigation operation eventually is done (by Success, or by a
\* Fail that an elapsed-time budget or the retry budget produces).
C11_NavigationTerminates ==
    (op \in {"MoveToNextLevel", "MoveToMiniMapInteractIcon"} /\ phase = "running")
        ~> (phase = "done")

\* the failure reason of the delegating node n of the running operation
DelegateFailStatus(n, child) ==
    IF op = "ResetSimUniLevel"
    THEN CASE n = 2 -> "choose_uni_failed"
           [] n = 3 -> "continue_failed"
           [] OTHER -> "loading_failed"
    ELSE child.status

\* C12: a node that delegates to a child operation (ResetSimUniLevel's nodes
\* 2..4, MoveToNextLevelByRoute's interact node) answers Success when the
\* child ended in Success and Fail otherwise, never Retry or Wait; on Success
\* the parent goes on to the next node or finishes in Success; on Fail the
\* parent is finished as failed with the node's failure reason, on that node.
C12_DelegatingNodeMapsChildResult ==
    (op \in {"ResetSimUniLevel", "MoveToNextLevelByRoute"} /\ screen # None
        /\ "child" \in DOMAIN screen[1]) =>
        LET child == screen[1].child
            r == round_result[1]
        IN IF child.success
           THEN /\ r = round_success
                /\ \/ phase = "running" /\ node \in 3..4 /\ op_round = 0
                   \/ phase = "done" /\ node = 4 /\ op_result = Some(op_success)
           ELSE /\ r = round_fail(DelegateFailStatus(node, child))
                /\ phase = "done"
                /\ op_result = Some(op_fail(DelegateFailStatus(node, child)))

C12_Witness ==
    /\ op = "ResetSimUniLevel"
    /\ screen # None
    /\ "child" \in DOMAIN screen[1]
    /\ ~screen[1].child.success
    /\ node = 3
    /\ phase = "done"
    /\ op_result = Some(op_fail("continue_failed"))

\* C13: MoveToNextLevelByRoute runs its nodes in the order turn, get target
\* position, move, interact and advances only on Success: the step run on
\* the third node is the walk (_move, a MoveDirectlyInSimUni child from
\* current_pos to target_pos), and the interact node is reached only when that
\* walk has ended in Success.
C13_MoveNodeWalksBeforeInteract ==
    (op = "MoveToNextLevelByRoute" /\ hist # None) =>
        /\ hist[1].node = 3 =>
              /\ hist[1].func = "_move"
              /\ "child" \in DOMAIN screen[1]
        /\ (node = 4 /\ hist[1].node = 3) =>
              /\ hist[1].func = "_move"
              /\ screen[1].child.success

Operations ==
    {"MoveToNextLevel", "MoveToMiniMapInteractIcon", "MoveToNextLevelByRoute",
     "ResetSimUniLevel", "ClaimTraining"}

\* C14: every round of an operation returns one of the four result kinds;
\* a finished operation reports exactly one of Success and Fail; it reports
\* Success only after a round that returned Success, it never finishes on a
\* round that returned Wait, and it finishes on a round that returned Retry
\* only when that Retry used up the budget, which the framework turns into
\* Fail(RetryExhausted); an operation that has not finished reports nothing.
C14_TerminalIsSuccessOrFail ==
    (op \in Operations /\ phase # "created") =>
        /\ round_result # None =>
              round_result[1].result \in {"SUCCESS", "FAIL", "WAIT", "RETRY"}
        /\ phase = "running" => op_result = None
        /\ phase = "done" =>
              /\ round_result # None
              /\ op_result # None
              /\ op_result[1].success \in BOOLEAN
              /\ round_result[1].result # "WAIT"
              /\ op_result[1].success <=> round_result[1].result = "SUCCESS"
              /\ round_result[1].result = "FAIL" =>
                    op_result = Some(op_fail(round_result[1].status))
              /\ round_result[1].result = "RETRY" =>
                    op_result = Some(op_fail(RetryExhausted))

C14_Witness ==
    /\ op = "ClaimTraining"
    /\ phase = "done"
    /\ self.phase = 4
    /\ round_result = Some(round_success)
    /\ op_result = Some(op_success)

\* C15: in every round of MoveDirectlyInSimUni in which a combat
\* sub-operation is started, stop_moving_forward is issued in the same call
\* before the sub-operation begins (so the character stands when the combat
\* is entered); a combat sub-operation is started only when no_battle is not
\* set and the minimap shows an enemy indicator.
C15_StopBeforeCombat ==
    [][(op = "MoveDirectlyInSimUni" /\ IsRoundStep) =>
         LET started == {i \in 1..Len(cmds') : cmds'[i] = enter_fight}
         IN /\ (hist'[1].fight # None) <=> (started # {})
            /\ \A i \in started :
                  /\ \E j \in 1..(i - 1) : cmds'[j] = stop_moving_forward
                  /\ ~ctl'.is_moving
            /\ started # {} =>
                  /\ ~self.no_battle
                  /\ screen'[1].in_world
                  /\ screen'[1].mm.under_attack]_vars

C15_Witness ==
    /\ op = "MoveDirectlyInSimUni"
    /\ hist # None
    /\ hist[1].fight # None
    /\ self.pos # None
    /\ cmds = <<stop_moving_forward, enter_fight>>
    /\ round_result = Some(round_wait)

\* whether command c is among the commands cs
Issued(c, cs) == \E i \in 1..Len(cs) : cs[i] = c

\* C16: a round of MoveToNextLevel or MoveToMiniMapInteractIcon that detects
\* the interact prompt (it reaches _try_interact and the prompt is shown)
\* issues stop_moving_forward and then interact and nothing else, and returns
\* Wait; a round that detects no prompt issues no interact command.
C16_PromptStopsThenInteracts ==
    [][(op \in {"MoveToNextLevel", "MoveToMiniMapInteractIcon"} /\ IsRoundStep) =>
         LET scr == screen'[1]
             reached == IF op = "MoveToNextLevel"
                        THEN ~(self.interacted /\ ~scr.in_world)
                        ELSE scr.in_world
             detected == reached /\ scr.can_interact
         IN /\ detected =>
                  /\ cmds' = <<stop_moving_forward, interact>>
                  /\ round_result' = Some(round_wait)
                  /\ ~ctl'.is_moving
                  /\ phase' = "running"
            /\ ~detected => ~Issued(interact, cmds')]_vars

C16_Witness ==
    /\ op = "MoveToNextLevel"
    /\ phase = "running"
    /\ cmds = <<stop_moving_forward, interact>>
    /\ screen # None
    /\ screen[1].can_interact
    /\ self.interacted
    /\ self.is_moving
    /\ round_result = Some(round_wait)

\* the match the priority rule selects: the first match of the kind of the
\* earliest priority entry present among the matches, the first match when
\* there is no priority or none of its kinds is matched
SelectedEntry(type_list, level_priority) ==
    LET present == IF level_priority = None THEN {}
                   ELSE PresentPriorities(type_list, level_priority[1].id_list)
    IN IF present = {} THEN type_list[1]
       ELSE LET kind == level_priority[1].id_list[MinOf(present)]
                idx == MinOf({i \in 1..Len(type_list) : type_list[i].data.type_id = kind})
            IN type_list[idx]

\* C17: a round of MoveToNextLevel that is not moving and sees no prompt
\* issues, when no landmark is matched, exactly one turn of 90 degrees, starts
\* no forward motion and returns Retry; when a landmark is matched it turns by
\* the angle toward the selected match, starts moving forward and returns Wait.
C17_SeekTurnsOrSteersToBest ==
    [][(op = "MoveToNextLevel" /\ IsRoundStep) =>
         LET scr == screen'[1]
             seeking == /\ ~(self.interacted /\ ~scr.in_world)
                        /\ ~scr.can_interact
                        /\ ~self.is_moving
             matched == {k \in Kinds : scr.matches[k] # None}
             type_list == get_next_level_type(scr)
         IN seeking =>
              IF matched = {}
              THEN /\ cmds' = <<turn_by_angle(90)>>
                   /\ round_result'[1].result = "RETRY"
                   /\ ~self'.is_moving
                   /\ ctl'.is_moving = ctl.is_moving
              ELSE LET target == SelectedEntry(type_list, self.level_priority)
                   IN /\ cmds' = <<turn_by_angle(mm_angle_to(target.center_x) - 270),
                                   start_moving_forward>>
                      /\ round_result' = Some(round_wait)
                      /\ self'.is_moving
                      /\ self'.start_move_age = 0
                      /\ ctl'.is_moving]_vars

C17_Witness ==
    /\ op = "MoveToNextLevel"
    /\ phase = "running"
    /\ self.level_priority # None
    /\ screen # None
    /\ screen[1].matches[1] = Some(460)
    /\ screen[1].matches[NumKinds] = Some(1460)
    /\ ~screen[1].can_interact
    /\ cmds = <<turn_by_angle(45), start_moving_forward>>
    /\ self.is_moving

\* C18: in MoveToNextLevel a round that starts more than MOVE_TIME after the
\* motion was started leaves the character standing; a round that starts with
\* the moving flag set issues no turn and no start_moving_forward and does not
\* restart the interval (only a stop, or stop and interact, or nothing); and
\* a round that starts a motion started with the flag clear.
C18_MotionStopsAfterMoveTime ==
    [][(op = "MoveToNextLevel" /\ IsRoundStep) =>
         /\ ctl.is_moving => self.is_moving
         /\ (ctl.is_moving /\ self'.start_move_age > MOVE_TIME) =>
               /\ ~ctl'.is_moving
               /\ Issued(stop_moving_forward, cmds')
         /\ self.is_moving =>
               /\ cmds' \in {<<>>, <<stop_moving_forward>>,
                             <<stop_moving_forward, interact>>}
               /\ self'.start_move_age # 0
               /\ round_result'[1].result # "RETRY"
         /\ Issued(start_moving_forward, cmds') =>
               /\ ~self.is_moving
               /\ ~ctl.is_moving
               /\ self'.start_move_age = 0]_vars

C18_Witness ==
    /\ op = "MoveToNextLevel"
    /\ phase = "running"
    /\ screen # None
    /\ ~screen[1].can_interact
    /\ cmds = <<stop_moving_forward>>
    /\ self.start_move_age > MOVE_TIME
    /\ ~self.is_moving
    /\ ~ctl.is_moving
    /\ round_result = Some(round_wait)

\* C19: a round of MoveDirectlyInSimUni that starts with last_auto_fight_fail
\* set starts no combat sub-operation and its enemy check stops nothing
\* (a stop is issued only on arrival), whatever the minimap shows, and the
\* flag stays set while the frames show the world; the flag gets set only in a
\* round whose combat sub-operation reported the enemy-not-found status.
C19_NotFoundFlagSuppressesCombat ==
    [][(op = "MoveDirectlyInSimUni" /\ IsRoundStep) =>
         /\ self.last_auto_fight_fail =>
               /\ hist'[1].fight = None
               /\ ~Issued(enter_fight, cmds')
               /\ Issued(stop_moving_forward, cmds') =>
                     round_result' = Some(round_success)
               /\ screen'[1].in_world => self'.last_auto_fight_fail
               /\ round_result'[1].result # "FAIL"
         /\ (~self.last_auto_fight_fail /\ self'.last_auto_fight_fail) =>
               /\ hist'[1].fight # None
               /\ hist'[1].fight[1].status = STATUS_ENEMY_NOT_FOUND]_vars

C19_Witness ==
    /\ op = "MoveDirectlyInSimUni"
    /\ phase = "running"
    /\ hist # None
    /\ hist[1].flag_before
    /\ self.last_auto_fight_fail
    /\ screen[1].mm.under_attack
    /\ ctl.is_moving
    /\ Issued(move_towards(self.target_pos), cmds)

\* the arithmetic mean of xs, integer part
MeanOf(xs) == SumSeq(xs) \div Len(xs)

\* C20: for every non-empty event_pos_list, the target that _turn_to_entry
\* passes to turn_by_pos has as x and y the arithmetic mean (integer part) of
\* the x and of the y coordinates of the list.
C20_TurnTargetIsMeanOfEntries ==
    (op = "MoveToNextLevelByRoute" /\ hist # None
        /\ hist[1].func = "_turn_to_entry" /\ cmds # <<>>
        /\ self.route.event_pos_list # <<>>) =>
        LET list == self.route.event_pos_list
        IN /\ cmds[1].cmd = "turn_by_pos"
           /\ cmds[1].arg[3] = MeanOf([i \in 1..Len(list) |-> list[i].x])
           /\ cmds[1].arg[4] = MeanOf([i \in 1..Len(list) |-> list[i].y])

----------------------------------------------------------------------------
(* Route target selection *)

\* a bearing is to the left of a heading when it is reached by turning
\* counter-clockwise by less than half a turn (angles are clockwise-positive)
OnLeft(heading, bearing) == ((heading - bearing) % 360) \in 1..179

\* C21: _get_target_pos takes the only route position when there is exactly
\* one; otherwise it returns Retry when no entrance is detected or no route
\* position lies on the side of the best-priority entrance (left iff its
\* centre x is below half the standard width), and else succeeds with the
\* first route position on that side, for every heading and bearing; a
\* Success always leaves target_pos a member of route.next_pos_list
C21_TargetPosOnEntranceSide ==
    (/\ op = "MoveToNextLevelByRoute"
     /\ hist # None /\ screen # None /\ round_result # None
     /\ hist[1].func = "_get_target_pos")
    => LET in == screen[1]
           L == self.route.next_pos_list
           type_list == get_next_level_type(in)
           best == SelectedEntry(type_list, self.level_priority)
           left == best.center_x < STANDARD_RESOLUTION_W \div 2
           same == {i \in 1..Len(L) :
                       OnLeft(in.angle, get_angle_by_pts(self.current_pos, L[i])) = left}
       IN IF Len(L) = 1
          THEN round_result[1].result = "SUCCESS" /\ self.target_pos = Some(L[1])
          ELSE IF Len(type_list) = 0 \/ same = {}
          THEN round_result[1].result = "RETRY"
          ELSE /\ round_result[1].result = "SUCCESS"
               /\ self.target_pos = Some(L[MinOf(same)])

\* C22: a round of MoveToNextLevel returns Success only on a frame that is
\* not the in-world screen and right after a round that fired the interact
\* command; when the frame after an interact is still in-world the round does
\* not succeed and leaves the interacted flag set only if it fired interact
\* again; a frame that is not in-world with no interact in the round before
\* never yields Success.
C22_SuccessOnlyAfterInteractLeftWorld ==
    [][(op = "MoveToNextLevel" /\ IsRoundStep) =>
         LET scr == screen'[1]
             after_interact == hist # None /\ hist[1].fired_interact
             result == round_result'[1].result
         IN /\ result = "SUCCESS" => (~scr.in_world /\ after_interact)
            /\ (after_interact /\ scr.in_world) =>
                  /\ result # "SUCCESS"
                  /\ self'.interacted = Issued(interact, cmds')
                  /\ self'.interacted = scr.can_interact
            /\ (~scr.in_world /\ ~after_interact) => result # "SUCCESS"]_vars

\* the frame after an interact is no longer the in-world screen: Success
C22_Witness ==
    /\ op = "MoveToNextLevel"
    /\ phase = "done"
    /\ op_result = Some(op_success)
    /\ screen # None
    /\ ~screen[1].in_world
    /\ self.interacted

----------------------------------------------------------------------------
(* ImageHolder *)

\* C23: after pop_template(template_id) the cache holds no entry derived from
\* that template, its rotated variants included, so a get_template for that
\* id that follows, at any angle, makes a load and returns none of the objects
\* that were cached before the pop.
C23_PopTemplateDropsRotatedVariants ==
    [][(op = "ImageHolder" /\ hist # None
          /\ hist[1].call.method = "pop_template") =>
         LET t == hist[1].call.arg.template_id
             held_before == {hist[1].before.template[k] :
                                k \in DOMAIN hist[1].before.template}
         IN /\ \A k \in DOMAIN self.template : self.template[k].template # t
            /\ (/\ hist'[1].call.method = "get_template"
                /\ hist'[1].call.arg.template_id = t)
               => /\ cmds' = <<load_template_call(t)>>
                  /\ ret' # None => ret'[1] \notin held_before]_vars

\* the dict d without the key k
Without(d, k) == [x \in (DOMAIN d) \ {k} |-> d[x]]

\* C24: a lookup makes at most one load, and only on a miss: get_large_map
\* and get_template at angle 0 return the cached object with no load when the
\* key is cached and make exactly one load otherwise; a large-map load that
\* finds no image stores nothing, so the cache maps no key to an absent image;
\* pop_large_map of a key that is not cached leaves the cache unchanged, and
\* a load followed by a pop of the same key leaves the cache without that key
\* and otherwise as it was.
C24_LookupLoadsOncePerMiss ==
    (op = "ImageHolder" /\ hist # None) =>
        LET call == hist[1].call
            before == hist[1].before
            map_key == ImageHolder_get_key_for_map(call.arg.planet, call.arg.region,
                                                   call.arg.map_type)
        IN /\ Len(cmds) <= 1
           /\ \A k \in DOMAIN self.large_map : self.large_map[k] # None
           /\ call.method = "get_large_map" =>
                 IF map_key \in DOMAIN before.large_map
                 THEN /\ cmds = <<>>
                      /\ ret = Some(before.large_map[map_key])
                      /\ self = before
                 ELSE /\ cmds = <<load_large_map_call(map_key)>>
                      /\ IF ret = None
                         THEN self = before
                         ELSE self.large_map = DictSet(before.large_map, map_key, ret[1])
           /\ (call.method = "get_template" /\ call.arg.rotate_angle = 0) =>
                 IF TemplateKey(call.arg.template_id) \in DOMAIN before.template
                 THEN /\ cmds = <<>>
                      /\ ret = Some(before.template[TemplateKey(call.arg.template_id)])
                      /\ self = before
                 ELSE cmds = <<load_template_call(call.arg.template_id)>>
           /\ (call.method = "pop_large_map"
                 /\ map_key \notin DOMAIN before.large_map) => self = before
           /\ \A m \in Maps :
                 LET key == ImageHolder_get_key_for_map(m.planet, m.region, m.map_type)
                     loaded == ImageHolder_load_large_map(self, args, ctl.loads,
                                   m.planet, m.region, m.map_type).self
                     popped == ImageHolder_pop_large_map(loaded, args, ctl.loads,
                                   m.planet, m.region, m.map_type).self
                 IN popped.large_map = Without(self.large_map, key)

\* a get_large_map that missed and found no image, with another map cached
C24_Witness ==
    /\ op = "ImageHolder"
    /\ hist # None
    /\ hist[1].call.method = "get_large_map"
    /\ cmds # <<>>
    /\ ret = None
    /\ DOMAIN self.large_map # {}
    /\ self = hist[1].before

----------------------------------------------------------------------------
(* Motion at the end of an operation *)

\* C25: when MoveToNextLevel or MoveToMiniMapInteractIcon has ended, with
\* Success or Fail (retry exhaustion included), the character is not left
\* moving: the last movement command the controller received is
\* stop_moving_forward; MoveToMiniMapInteractIcon issues it as the last
\* command of its final round, MoveToNextLevel issues no start in the round
\* that ends it.
C25_EndsStopped ==
    (op \in {"MoveToNextLevel", "MoveToMiniMapInteractIcon"} /\ phase = "done") =>
        /\ op_result # None
        /\ ~ctl.is_moving
        /\ ~Issued(start_moving_forward, cmds)
        /\ op = "MoveToMiniMapInteractIcon" =>
              /\ cmds # <<>>
              /\ cmds[Len(cmds)] = stop_moving_forward

\* MoveToMiniMapInteractIcon ended in a round that began with the character
\* moving forward
C25_Witness ==
    /\ op = "MoveToMiniMapInteractIcon"
    /\ phase = "done"
    /\ hist # None
    /\ hist[1].was_moving
    /\ ~ctl.is_moving

----------------------------------------------------------------------------
(* ClaimTraining *)

\* C26: ClaimTraining's phase stays within 0..4, never decreases and grows by
\* at most 1 in a round; a round returns Success only in phase 1 with no guide
\* alert found or in phase 4 with the menu operation succeeding, Fail only in
\* phase 0 or 4 with the menu operation failing, never Retry; in phases 2 and
\* 3 a round that finds a claim button returns Wait and leaves the phase as
\* it was.
C26_PhaseProgress ==
    [][op = "ClaimTraining" =>
         /\ self'.phase \in 0..4
         /\ self'.phase - self.phase \in {0, 1}
         /\ IsRoundStep =>
               LET in == screen'[1]
                   p == self.phase
               IN /\ round_result' # None
                  /\ round_result'[1].result # "RETRY"
                  /\ round_result'[1].result = "SUCCESS" =>
                        \/ p = 1 /\ ~in.found
                        \/ p = 4 /\ in.child
                  /\ round_result'[1].result = "FAIL" =>
                        p \in {0, 4} /\ ~in.child
                  /\ (p \in {2, 3} /\ in.found) =>
                        /\ round_result'[1].result = "WAIT"
                        /\ self'.phase = p
         /\ ~IsRoundStep => self'.phase = self.phase]_vars

\* a round of phase 3 found a claim button: Wait, still phase 3
C26_Witness ==
    /\ op = "ClaimTraining"
    /\ phase = "running"
    /\ self.phase = 3
    /\ screen # None
    /\ screen[1].found
    /\ round_result = Some(round_wait)

====
